---- MODULE Spec2Model ----
(***************************************************************************)
(* A model of the loyly-proto sensor pipeline (src/ruuvi.js and the React  *)
(* application around it): the Ruuvi Data Format 5 frame decoder, the      *)
(* apparent-temperature formula and the live BLE scan source.              *)
(*                                                                         *)
(* JavaScript values are records tagged by "kind": null, undefined, NaN    *)
(* and numbers.  A physical quantity (a double in the code) is a           *)
(* fixed-point integer counting 1/10000 of its unit, so that raw/200,      *)
(* raw/400 and (raw+50000)/100 are exact; counters, millivolts and dBm     *)
(* are plain integers.                                                     *)
(***************************************************************************)
EXTENDS Integers, Sequences, FiniteSets, TLC

VARIABLES
    input,        \* decodeRuuviDF5: the argument of the call under check
    result,       \* decodeRuuviDF5: what the call produced
    atT,          \* apparentTemperature: argument T
    atRH,         \* apparentTemperature: argument RH
    atResult,     \* apparentTemperature: what the call produced
    bleScan,      \* createBleScanSensor: closure variable bleScan
    advListener,  \* createBleScanSensor: closure variable advListener
    starts,       \* createBleScanSensor: the start() calls, each with its position
    radio,        \* navigator.bluetooth: scans handed out, listeners registered
    updates,      \* the onUpdate calls made so far, in order
    stopLog,      \* per start() call: was stop() called while it was in flight
    scanLast,     \* createBleScanSensor: the latest calls and what the last one did
    debug,        \* createDebugSensor: closure variables, timers, last emission
    dbgN,         \* createDebugSensor: how many start(), fakeLoyly() and ticks so far
    store,        \* db.samples and the clock
    recent,       \* useRecentSamples: subscription and delivered window
    nus,          \* createRuuviNusSensor: closure variables, GATT side, last emission
    app,          \* RuuviApp: React state, sensorRef and the sources it made
    history       \* RuuviApp of App.jsx: the history state and the clock

decoderVars == <<input, result>>
atVars == <<atT, atRH, atResult>>
scanVars == <<bleScan, advListener, starts, radio, updates, stopLog, scanLast>>
debugVars == <<debug, dbgN>>
storeVars == <<store, recent>>
nusVars == <<nus>>
appVars == <<app>>
historyVars == <<history>>

\* The variables of the components modelled after the scan source.
laterVars == <<debugVars, storeVars, nusVars, appVars, historyVars>>

\* What the synthetic source, the store, the connected source and the
\* application each leave alone.
notDebugVars ==
    <<decoderVars, atVars, scanVars, storeVars, nusVars, appVars, historyVars>>
notStoreVars ==
    <<decoderVars, atVars, scanVars, debugVars, nusVars, appVars, historyVars>>
notNusVars ==
    <<decoderVars, atVars, scanVars, debugVars, storeVars, appVars, historyVars>>
notAppVars ==
    <<decoderVars, atVars, scanVars, debugVars, storeVars, nusVars, historyVars>>
notHistoryVars ==
    <<decoderVars, atVars, scanVars, debugVars, storeVars, nusVars, appVars>>

vars == <<input, result, atT, atRH, atResult,
          bleScan, advListener, starts, radio, updates, stopLog, scanLast,
          debug, dbgN, store, recent, nus, app, history>>

-----------------------------------------------------------------------------
(* JavaScript values *)

Null == [kind |-> "null"]
Undefined == [kind |-> "undefined"]
NaN == [kind |-> "NaN"]
Num(v) == [kind |-> "number", v |-> v]

\* x == null in JavaScript: true of null and of undefined, of nothing else.
LooseNull(x) == x.kind \in {"null", "undefined"}

\* Fixed-point unit: a physical value v is stored as v * Scale.
Scale == 100 * 100

-----------------------------------------------------------------------------
(* DataView reads (big-endian: the code passes littleEndian = false) *)

Readable(bytes, off, size) == off + size <= Len(bytes)

getUint8(bytes, off) == bytes[off + 1]

getUint16LE(bytes, off) == bytes[off + 2] * 256 + bytes[off + 1]
getUint16(bytes, off) == bytes[off + 1] * 256 + bytes[off + 2]

getInt16(bytes, off) ==
    LET w == getUint16(bytes, off)
    IN  IF w >= 32768 THEN w - 65536 ELSE w

-----------------------------------------------------------------------------
(* decodeRuuviDF5, src/ruuvi.js:3-42 *)

TemperatureNoSentinel(tempRaw) == Num(tempRaw * 50)
TemperatureOf(tempRaw) ==
    IF tempRaw = -32768 THEN Null ELSE Num(tempRaw * 50)

HumidityNoSentinel(humidityRaw) == Num(humidityRaw * 25)
HumidityOf(humidityRaw) ==
    IF humidityRaw = 65535 THEN Null ELSE Num(humidityRaw * 25)

PressureNoOffset(pressureRaw) ==
    IF pressureRaw = 65535 THEN Null ELSE Num(pressureRaw * 100)
PressureOf(pressureRaw) ==
    IF pressureRaw = 65535 THEN Null ELSE Num((pressureRaw + 50000) * 100)

AccelerationOf(acc) == IF acc = -32768 THEN Null ELSE Num(acc)

\* powerInfo is ONE byte (getUint8(13)); >> 5 leaves three bits, which never
\* equal 0b1111111 = 127.
BatteryOf(powerInfo) ==
    LET batteryVoltage == powerInfo \div 32
    IN  IF batteryVoltage = 127 THEN Null ELSE Num(1600 + batteryVoltage)

TxPowerOf(powerInfo) ==
    LET txPowerRaw == powerInfo % 32
    IN  IF txPowerRaw = 31 THEN Null ELSE Num(-40 + txPowerRaw * 2)

\* The reads of the try block, in order: <<offset, size>>.
DecodeReads ==
    <<  <<1, 2>>, <<3, 2>>, <<5, 2>>, <<7, 2>>, <<9, 2>>, <<11, 2>>,
        <<13, 1>>, <<15, 1>>, <<16, 2>> >>

NullResult == [tag |-> "null"]
Thrown(e) == [tag |-> "throw", error |-> e]
Pending == [tag |-> "pending"]

\* Lines 5-41: a read past the end of the view throws RangeError, which the
\* catch turns into null.
DecodeBody(bytes) ==
    IF \E i \in 1..Len(DecodeReads) :
          ~Readable(bytes, DecodeReads[i][1], DecodeReads[i][2])
    THEN NullResult
    ELSE [ tag |-> "measurement",
           humidity |-> HumidityOf(getUint16(bytes, 3)),
           temperature |-> TemperatureOf(getInt16(bytes, 1)),
           pressure |-> PressureOf(getUint16(bytes, 5)),
           acceleration_x |-> AccelerationOf(getInt16(bytes, 7)),
           acceleration_y |-> AccelerationOf(getInt16(bytes, 9)),
           acceleration_z |-> AccelerationOf(getInt16(bytes, 11)),
           battery |-> BatteryOf(getUint8(bytes, 13)),
           txPower |-> TxPowerOf(getUint8(bytes, 13)),
           movement_counter |-> getUint8(bytes, 15),
           measurement_sequence_number |-> getUint16(bytes, 16) ]

\* Line 4: if (!(dataView instanceof DataView) && dataView.getUint8(0) !== 0x05)
\* return null.  For a DataView the left operand is false and the guard is
\* skipped whatever the view holds; for null, undefined or an object without
\* getUint8 the right operand is evaluated and throws TypeError, outside the
\* try block.
decodeRuuviDF5(dataView) ==
    IF dataView.kind = "DataView"
    THEN DecodeBody(dataView.bytes)
    ELSE Thrown("TypeError")

-----------------------------------------------------------------------------
(* The frames the decoder is checked on *)

MaxFrameLen == 25

Hi(w) == w \div 256
Lo(w) == w % 256

FormatBytes == {5, 3}
TempWords == {343, 32767, 32768, 32769}
HumWords == {0, 20000, 65534, 65535}
PresWords == {0, 65534, 65535}
AccWords == {1, 32768}
PowerWords == {0, 44132, 65504, 65535}

FrameBytes(fmt, t, h, p, ax, ay, az, pw) ==
    <<fmt, Hi(t), Lo(t), Hi(h), Lo(h), Hi(p), Lo(p),
      Hi(ax), Lo(ax), Hi(ay), Lo(ay), Hi(az), Lo(az),
      Hi(pw), Lo(pw), 7, 1, 2, 202, 254, 186, 190, 0, 1>>

Pad(bytes, n) == [i \in 1..n |-> IF i <= Len(bytes) THEN bytes[i] ELSE 0]

DataViews ==
    { [kind |-> "DataView",
       bytes |-> Pad(SubSeq(FrameBytes(fmt, t, h, p, ax, ay, az, pw), 1,
                            IF n < 24 THEN n ELSE 24), n)] :
        fmt \in FormatBytes, t \in TempWords, h \in HumWords, p \in PresWords,
        ax \in AccWords, ay \in AccWords, az \in AccWords, pw \in PowerWords,
        n \in 0..MaxFrameLen }

NonDataViews == { [kind |-> "null"], [kind |-> "undefined"], [kind |-> "object"] }

NoInput == [kind |-> "none"]

DecoderIdle == input = NoInput /\ result = Pending

Decode ==
    /\ input # NoInput
    /\ result = Pending
    /\ result' = decodeRuuviDF5(input)
    /\ UNCHANGED <<input, atT, atRH, atResult,
                   bleScan, advListener, starts, radio, updates, stopLog, scanLast>>
    /\ UNCHANGED laterVars

-----------------------------------------------------------------------------
(* Fixed-point arithmetic on values counted in 1/Scale.  Every product is  *)
(* split so that no intermediate leaves the 32-bit integers of TLC.        *)

\* floor(a * b / Scale), up to one unit in the last place.  The product is a
\* function of two integers, so that each factor is evaluated once however
\* deep the expression it comes from.
MulFix(a, b) ==
    LET Product[x \in Int, y \in Int] ==
            LET ah == x \div Scale
                al == x % Scale
                bh == y \div Scale
                bl == y % Scale
            IN  ah * bh * Scale + ah * bl + al * bh + (al * bl) \div Scale
    IN  Product[a, b]

\* floor(a * Scale / b) for b > 0, by long division two digits at a time.
DivFix(a, b) ==
    LET q == a \div b
        r == a % b
        d1 == (r * 100) \div b
        r1 == (r * 100) % b
        d2 == (r1 * 100) \div b
    IN  q * Scale + d1 * 100 + d2

\* sum of f^k / k! for k from the given one on, f in [0, 1): nine terms leave
\* less than 3e-6.
RECURSIVE TaylorFrom(_, _, _, _)
TaylorFrom(f, k, term, acc) ==
    IF k > 9 THEN acc
    ELSE LET t == MulFix(term, f) \div k
         IN  TaylorFrom(f, k + 1, t, acc + t)

RECURSIVE TimesEPow(_, _)
TimesEPow(v, n) ==
    IF n = 0 THEN v
    ELSE IF n > 0 THEN TimesEPow(MulFix(v, 27183), n - 1)
    ELSE TimesEPow(MulFix(v, 3679), n + 1)

\* Math.exp(x): exp(x) = e^floor(x) * exp(frac(x)); below -10 it is less than
\* one unit.
Exp(x) ==
    IF x < -10 * Scale THEN 0
    ELSE TimesEPow(TaylorFrom(x % Scale, 1, Scale, Scale), x \div Scale)

-----------------------------------------------------------------------------
(* apparentTemperature, src/ruuvi.js:44-49 *)

\* Line 46: e = (RH / 100) * 6.105 * Math.exp(17.27 * T / (237.7 + T)).
\* At T = -237.7 the quotient is -Infinity and Math.exp gives 0.  The model
\* covers T >= -237.7 and exponents below 12 (T up to about 163.835).
VaporPressure(T, RH) ==
    LET den == 2377000 + T
        ex == IF den = 0 THEN 0 ELSE Exp(DivFix(MulFix(172700, T), den))
    IN  MulFix(MulFix(RH \div 100, 61050), ex)

\* Line 47: AT = T + 0.33 * e - 4.00.
ApparentOfPlusFour(T, RH) == T + MulFix(3300, VaporPressure(T, RH)) + 40000
ApparentOf(T, RH) == T + MulFix(3300, VaporPressure(T, RH)) - 40000

\* Line 45 returns null for null and undefined (== null).  Any other value
\* goes through the arithmetic, where NaN stays NaN.
apparentTemperatureStrict(T, RH) ==
    IF T.kind = "null" \/ RH.kind = "null" THEN Null
    ELSE IF T.kind # "number" \/ RH.kind # "number" THEN NaN
    ELSE Num(ApparentOf(T.v, RH.v))
apparentTemperature(T, RH) ==
    IF LooseNull(T) \/ LooseNull(RH) THEN Null
    ELSE IF T.kind = "NaN" \/ RH.kind = "NaN" THEN NaN
    ELSE Num(ApparentOf(T.v, RH.v))

\* The arguments the formula is checked on: tens of degrees and of percent.
MaxDecades == 10

ATInputsT ==
    {Null, Undefined, NaN} \cup {Num(k * 10 * Scale) : k \in (0 - MaxDecades)..MaxDecades}
ATInputsRH ==
    {Null, Undefined, NaN} \cup {Num(k * 10 * Scale) : k \in 0..MaxDecades}

NoArg == [kind |-> "none"]

ATIdle == atT = NoArg /\ atRH = NoArg /\ atResult = Pending

ATCall ==
    /\ atT # NoArg
    /\ atResult = Pending
    /\ atResult' = [tag |-> "return", value |-> apparentTemperature(atT, atRH)]
    /\ UNCHANGED <<input, result, atT, atRH,
                   bleScan, advListener, starts, radio, updates, stopLog, scanLast>>
    /\ UNCHANGED laterVars

-----------------------------------------------------------------------------
(* createBleScanSensor, src/ruuvi.js:51-85, with navigator.bluetooth       *)
(*                                                                         *)
(* Every start() call gets a number, its place in starts.  The scan that   *)
(* requestLEScan hands to call i and the listener that call i creates      *)
(* carry that number.  radio.scans are the scans still active,             *)
(* radio.listeners the 'advertisementreceived' listeners in registration   *)
(* order.  An update records the call whose code emitted it (by).          *)

MaxStarts == 2
MaxUpdates == 2

Scan(i) == [kind |-> "scan", id |-> i]
Listener(i) == [kind |-> "listener", id |-> i]

NoError == Undefined
ErrorText(e) == [kind |-> "string", v |-> e]

Remove(seq, x) == SelectSeq(seq, LAMBDA y : y # x)

RadioOff == [scans |-> {}, listeners |-> <<>>]

\* The names of the latest two operations on a source.
LastTwo(ops, op) == IF ops = <<>> THEN <<op>> ELSE <<ops[Len(ops)], op>>

\* What is kept of the operations on the scan source: the latest two, the
\* release calls the last one made on the radio, how many updates it passed
\* to onUpdate and, of an advertisement, its manufacturerData entries.
NothingDone == [ops |-> <<>>, released |-> <<>>, emitted |-> 0, event |-> <<>>]
ScanDid(op, released, emitted) ==
    [ops |-> LastTwo(scanLast.ops, op), released |-> released, emitted |-> emitted,
     event |-> <<>>]

ScanIdle ==
    /\ bleScan = Null
    /\ advListener = Null
    /\ starts = <<>>
    /\ radio = RadioOff
    /\ updates = <<>>
    /\ stopLog = <<>>
    /\ scanLast = NothingDone

\* Lines 55-57: start() runs up to the await of requestLEScan.
Start ==
    /\ Len(starts) < MaxStarts
    /\ starts' = Append(starts, "awaitRequestLEScan")
    /\ stopLog' = Append(stopLog, FALSE)
    /\ scanLast' = ScanDid("start", <<>>, 0)
    /\ UNCHANGED <<bleScan, advListener, radio, updates>>
    /\ UNCHANGED <<input, result, atT, atRH, atResult>>
    /\ UNCHANGED laterVars

\* Lines 57-73: requestLEScan resolves for call i; the rest of start() runs.
ScanGranted(i) ==
    /\ starts[i] = "awaitRequestLEScan"
    /\ bleScan' = Scan(i)
    /\ advListener' = Listener(i)
    /\ radio' = [scans |-> radio.scans \cup {i},
                 listeners |-> Append(radio.listeners, i)]
    /\ starts' = [starts EXCEPT ![i] = "done"]
    /\ scanLast' = ScanDid("granted", <<>>, 0)
    /\ UNCHANGED <<updates, stopLog>>
    /\ UNCHANGED <<input, result, atT, atRH, atResult>>
    /\ UNCHANGED laterVars

\* Lines 74-76: requestLEScan rejects for call i; the catch emits the error.
ScanDenied(i) ==
    /\ starts[i] = "awaitRequestLEScan"
    /\ Len(updates) < MaxUpdates
    /\ updates' = Append(updates,
          [temperature |-> Null, humidity |-> Null, apparentTemperature |-> Null,
           error |-> ErrorText("NotAllowedError"), by |-> i])
    /\ starts' = [starts EXCEPT ![i] = "failed"]
    /\ scanLast' = ScanDid("denied", <<>>, 1)
    /\ UNCHANGED <<bleScan, advListener, radio, stopLog>>
    /\ UNCHANGED <<input, result, atT, atRH, atResult>>
    /\ UNCHANGED laterVars

\* Lines 78-83: stop().  It releases what bleScan and advListener hold now;
\* a start() call still awaiting requestLEScan is not told.
Stop ==
    /\ radio' = [scans |-> IF bleScan # Null
                           THEN radio.scans \ {bleScan.id} ELSE radio.scans,
                 listeners |-> IF advListener # Null
                               THEN Remove(radio.listeners, advListener.id)
                               ELSE radio.listeners]
    /\ bleScan' = Null
    /\ advListener' = Null
    /\ stopLog' = [i \in 1..Len(starts) |->
                      stopLog[i] \/ starts[i] = "awaitRequestLEScan"]
    /\ scanLast' = ScanDid("stop",
          (IF bleScan # Null THEN <<"bleScan.stop">> ELSE <<>>)
              \o (IF advListener # Null THEN <<"removeEventListener">> ELSE <<>>),
          0)
    /\ UNCHANGED <<starts, updates>>
    /\ UNCHANGED <<input, result, atT, atRH, atResult>>
    /\ UNCHANGED laterVars

\* Lines 58-72: advListener of call i on one event, whose manufacturerData
\* is a sequence of <<companyId, dataView>>.
RECURSIVE ListenerUpdates(_, _)
ListenerUpdates(i, entries) ==
    IF entries = <<>> THEN <<>>
    ELSE LET companyId == Head(entries)[1]
             dataView == Head(entries)[2]
             decoded == IF companyId = 1177 /\ Len(dataView.bytes) = 24
                        THEN decodeRuuviDF5(dataView) ELSE NullResult
             rest == ListenerUpdates(i, Tail(entries))
         IN  IF decoded.tag = "measurement"
             THEN <<[temperature |-> decoded.temperature,
                     humidity |-> decoded.humidity,
                     apparentTemperature |->
                         apparentTemperature(decoded.temperature, decoded.humidity),
                     error |-> NoError, by |-> i]>> \o rest
             ELSE rest

RECURSIVE Dispatch(_, _)
Dispatch(listeners, entries) ==
    IF listeners = <<>> THEN <<>>
    ELSE ListenerUpdates(Head(listeners), entries) \o Dispatch(Tail(listeners), entries)

DV(bytes) == [kind |-> "DataView", bytes |-> bytes]

GoodFrame == DV(FrameBytes(5, 343, 20000, 0, 1, 1, 1, 0))
SentinelFrame == DV(FrameBytes(5, 32768, 65535, 0, 1, 1, 1, 0))
OtherFormatFrame == DV(FrameBytes(3, 343, 20000, 0, 1, 1, 1, 0))
ShortFrame == DV(SubSeq(FrameBytes(5, 343, 20000, 0, 1, 1, 1, 0), 1, 20))

AdvEvents ==
    { << <<1177, GoodFrame>> >>,
      << <<1177, SentinelFrame>> >>,
      << <<1177, OtherFormatFrame>> >>,
      << <<1177, ShortFrame>> >>,
      << <<76, GoodFrame>> >>,
      << <<76, GoodFrame>>, <<1177, GoodFrame>> >> }

\* The radio dispatches an 'advertisementreceived' event while a scan is
\* active; every registered listener runs.
Advertisement(entries) ==
    /\ radio.scans # {}
    /\ Len(updates) < MaxUpdates
    /\ updates' = updates \o Dispatch(radio.listeners, entries)
    /\ scanLast' = [ScanDid("advertisement", <<>>,
                            Len(Dispatch(radio.listeners, entries)))
                        EXCEPT !.event = entries]
    /\ UNCHANGED <<bleScan, advListener, starts, radio, stopLog>>
    /\ UNCHANGED <<input, result, atT, atRH, atResult>>
    /\ UNCHANGED laterVars

-----------------------------------------------------------------------------
(* createDebugSensor: the synthetic source, src/ruuvi.js:87-122 *)

BASELINE_RH == 5
BASELINE_TEMP == 60

MaxDebugStarts == 2
MaxLoyly == 10
MaxTicks == 2

Min(a, b) == IF a < b THEN a ELSE b
Max(a, b) == IF a > b THEN a ELSE b

\* Line 106: tau = 2.0, dt = 1.0, alpha = 1 - Math.exp(-dt / tau).
Alpha == Scale - Exp(0 - DivFix(1 * Scale, 2 * Scale))

\* The update object of lines 100 and 109.
DebugUpdate(d) ==
    [temperature |-> Num(d.fakeTemp),
     humidity |-> Num(d.fakeRH),
     apparentTemperature |-> apparentTemperature(Num(d.fakeTemp), Num(d.fakeRH)),
     error |-> NoError]

\* The timer handle setInterval returns; ids are never reused.
Timer(k) == [kind |-> "timer", id |-> k]

\* Lines 88-92: the closure after construction.  timers are the intervals the
\* platform still fires; out holds the updates the latest operation passed to
\* onUpdate and released the timers it cleared; ops names the latest two
\* operations, pre and spiked the value of trueRH before and after the latest
\* fakeLoyly().
NewDebugSensor ==
    [interval |-> Null,
     timers |-> {},
     running |-> FALSE,
     trueTemp |-> BASELINE_TEMP * Scale,
     trueRH |-> BASELINE_RH * Scale,
     fakeTemp |-> BASELINE_TEMP * Scale,
     fakeRH |-> BASELINE_RH * Scale,
     out |-> <<>>,
     released |-> <<>>,
     ops |-> <<>>,
     pre |-> BASELINE_RH * Scale,
     spiked |-> BASELINE_RH * Scale]

\* Lines 93-95.
LoylyNoClamp(rh) == rh + 10 * Scale
Loyly(rh) == Min(rh + 10 * Scale, 100 * Scale)

fakeLoyly(d) ==
    [d EXCEPT !.trueRH = Loyly(d.trueRH),
              !.out = <<>>,
              !.released = <<>>,
              !.ops = LastTwo(d.ops, "fakeLoyly"),
              !.pre = d.trueRH,
              !.spiked = Loyly(d.trueRH)]

\* Lines 98-99: the closure variables a start() leaves.
StartValuesKept(d) == d
StartValues(d) ==
    [d EXCEPT !.trueTemp = BASELINE_TEMP * Scale,
              !.trueRH = BASELINE_RH * Scale,
              !.fakeTemp = BASELINE_TEMP * Scale,
              !.fakeRH = BASELINE_RH * Scale]

\* Lines 97-112: start() with k the id of the timer it sets.  The handle in
\* interval is overwritten, whatever it was.
debugStart(d, k) ==
    LET r == [StartValues(d) EXCEPT !.running = TRUE]
    IN  [r EXCEPT !.out = <<DebugUpdate(r)>>,
                  !.released = <<>>,
                  !.interval = Timer(k),
                  !.timers = d.timers \cup {k},
                  !.ops = LastTwo(d.ops, "start")]

\* Lines 102-105: the relaxation of trueRH in one tick.
DecayStepTenfold(rh) ==
    IF rh > BASELINE_RH * Scale
    THEN Max(rh - Max(MulFix(rh - BASELINE_RH * Scale, 8000), 500), BASELINE_RH * Scale)
    ELSE rh
DecayStepNoFloor(rh) ==
    IF rh > BASELINE_RH * Scale
    THEN Max(rh - MulFix(rh - BASELINE_RH * Scale, 800), BASELINE_RH * Scale)
    ELSE rh
DecayStep(rh) ==
    IF rh > BASELINE_RH * Scale
    THEN Max(rh - Max(MulFix(rh - BASELINE_RH * Scale, 800), 500), BASELINE_RH * Scale)
    ELSE rh

\* Lines 107-108: fake += alpha * (true - fake).
Smooth(fake, true) == fake + MulFix(Alpha, true - fake)

\* Lines 101-110: one firing of the interval callback.
debugTick(d) ==
    LET rh == DecayStep(d.trueRH)
        r == [d EXCEPT !.trueRH = rh,
                       !.fakeTemp = Smooth(d.fakeTemp, d.trueTemp),
                       !.fakeRH = Smooth(d.fakeRH, rh)]
    IN  [r EXCEPT !.out = <<DebugUpdate(r)>>,
                  !.released = <<>>,
                  !.ops = LastTwo(d.ops, "tick")]

\* Lines 113-117.
debugStopKeepsHandle(d) ==
    [d EXCEPT !.running = FALSE,
              !.timers = IF d.interval # Null THEN d.timers \ {d.interval.id} ELSE d.timers,
              !.out = <<>>,
              !.released = IF d.interval # Null THEN <<"clearInterval">> ELSE <<>>,
              !.ops = LastTwo(d.ops, "stop")]
debugStop(d) ==
    [d EXCEPT !.running = FALSE,
              !.timers = IF d.interval # Null THEN d.timers \ {d.interval.id} ELSE d.timers,
              !.interval = Null,
              !.out = <<>>,
              !.released = IF d.interval # Null THEN <<"clearInterval">> ELSE <<>>,
              !.ops = LastTwo(d.ops, "stop")]

NoCounts == [starts |-> 0, loyly |-> 0, ticks |-> 0]

DebugIdle == debug = NewDebugSensor /\ dbgN = NoCounts

DebugStart ==
    /\ dbgN.starts < MaxDebugStarts
    /\ debug' = debugStart(debug, dbgN.starts + 1)
    /\ dbgN' = [dbgN EXCEPT !.starts = @ + 1]
    /\ UNCHANGED notDebugVars

DebugLoyly ==
    /\ dbgN.loyly < MaxLoyly
    /\ debug' = fakeLoyly(debug)
    /\ dbgN' = [dbgN EXCEPT !.loyly = @ + 1]
    /\ UNCHANGED notDebugVars

\* The platform fires a timer that was set and not cleared.
DebugTick(t) ==
    /\ t \in debug.timers
    /\ dbgN.ticks < MaxTicks
    /\ debug' = debugTick(debug)
    /\ dbgN' = [dbgN EXCEPT !.ticks = @ + 1]
    /\ UNCHANGED notDebugVars

DebugStop ==
    /\ debug' = debugStop(debug)
    /\ UNCHANGED dbgN
    /\ UNCHANGED notDebugVars

\* The relaxation alone: a started source, spiked some number of times, and
\* then its timer firing for as long as it likes.
RECURSIVE LoylyTimes(_, _)
LoylyTimes(d, n) == IF n = 0 THEN d ELSE LoylyTimes(fakeLoyly(d), n - 1)

Relax(t) ==
    /\ t \in debug.timers
    /\ debug' = debugTick(debug)
    /\ UNCHANGED dbgN
    /\ UNCHANGED notDebugVars

-----------------------------------------------------------------------------
(* The sample store and its window: db.samples and logSample                *)
(* (src/unnamed/part_003:12-25), useRecentSamples (src/README.md:31-46)     *)

MaxRows == 3
MaxNow == 3
MaxWindow == 2
MaxUnsubs == 2

\* A row of db.samples: the auto-incremented primary key and the indexed ts.
Row(id, ts) == [id |-> id, ts |-> ts]

RowsOf(rows) == {rows[k] : k \in 1..Len(rows)}

\* A collection read through the index on a key other than the primary key
\* comes in the order of that index: by ts, rows of equal ts by primary key.
RECURSIVE ByPrimaryKey(_)
ByPrimaryKey(S) ==
    IF S = {} THEN <<>>
    ELSE LET m == CHOOSE r \in S : \A q \in S : r.id <= q.id
         IN  <<m>> \o ByPrimaryKey(S \ {m})
RECURSIVE ByIndex(_)
ByIndex(S) ==
    IF S = {} THEN <<>>
    ELSE LET m == CHOOSE r \in S :
                    \A q \in S : r.ts < q.ts \/ (r.ts = q.ts /\ r.id <= q.id)
         IN  <<m>> \o ByIndex(S \ {m})

\* README.md:37-38: where("ts").above(bound), the rows with ts > bound.
Above(S, bound) == {r \in S : r.ts > bound}

\* README.md:35-39: the querier of the live query at clock reading t.
Querier(rows, t, windowMs) == ByIndex(Above(RowsOf(rows), t - windowMs))

\* No hook mounted, an empty table, the clock at 0.
NewStore == [rows |-> <<>>, now |-> 0]
Unmounted ==
    [windowMs |-> Null,
     sub |-> "none",
     dirty |-> FALSE,
     samples |-> <<>>,
     queriedAt |-> Null,
     queriedRows |-> 0,
     delivered |-> 0,
     unsubs |-> 0]

StoreIdle == store = NewStore /\ recent = Unmounted

\* README.md:32-44: the hook mounts with useState([]) and subscribes to the
\* live query, which runs its querier a first time, asynchronously.
Subscribe(w) ==
    /\ recent.sub = "none"
    /\ recent' = [recent EXCEPT !.windowMs = Num(w), !.sub = "live", !.dirty = TRUE]
    /\ UNCHANGED store
    /\ UNCHANGED notStoreVars

\* README.md:34: liveQuery observes the table its querier read; after a write
\* to it, a subscribed query is due to run again.
NotInvalidated(r) == r
Invalidated(r) == [r EXCEPT !.dirty = @ \/ r.sub = "live"]

\* part_003:19-25: logSample adds a row.
LogSample(ts) ==
    /\ Len(store.rows) < MaxRows
    /\ store' = [store EXCEPT !.rows = Append(@, Row(Len(@) + 1, ts))]
    /\ recent' = Invalidated(recent)
    /\ UNCHANGED notStoreVars

\* README.md:34-42: the querier runs, with now read at that moment, and the
\* result goes to setSamples.  queriedAt and queriedRows keep the clock
\* reading and the size of the table the result was computed from, delivered
\* counts the calls of next.
Requery ==
    /\ recent.sub = "live"
    /\ recent.dirty
    /\ recent' = [recent EXCEPT
            !.dirty = FALSE,
            !.samples = Querier(store.rows, store.now, recent.windowMs.v),
            !.queriedAt = Num(store.now),
            !.queriedRows = Len(store.rows),
            !.delivered = @ + 1]
    /\ UNCHANGED store
    /\ UNCHANGED notStoreVars

\* README.md:43: the cleanup of the effect, sub.unsubscribe().  A closed
\* subscription takes no further result, and closing it again does nothing.
Unsubscribe ==
    /\ recent.sub \in {"live", "closed"}
    /\ recent.unsubs < MaxUnsubs
    /\ recent' = [recent EXCEPT !.sub = "closed", !.dirty = FALSE, !.unsubs = @ + 1]
    /\ UNCHANGED store
    /\ UNCHANGED notStoreVars

\* Date.now() moves on.
Advance ==
    /\ store.now < MaxNow
    /\ store' = [store EXCEPT !.now = @ + 1]
    /\ UNCHANGED recent
    /\ UNCHANGED notStoreVars

-----------------------------------------------------------------------------
(* createRuuviNusSensor: the connected live source, src/ruuvi.js:135-188 *)

MaxNusStarts == 2

\* What requestDevice, gatt.connect, getPrimaryService and getCharacteristic
\* resolve to for start() call k, and the handler that call defines.
Handle(kind, k) == [kind |-> kind, id |-> k]

\* The awaits of start(), in order (lines 144, 150, 151, 152, 166).
NusAwaits ==
    <<"requestDevice", "connect", "getPrimaryService", "getCharacteristic",
      "startNotifications">>

\* Lines 136-140: the closure after construction.  pc is the await the
\* start() call under way is at; connected, notifying and listeners are the
\* platform's side: open GATT connections, characteristics with notifications
\* on, handlers registered.  out, released and ops are as for the other
\* sources.
NewNusSensor ==
    [device |-> Null,
     server |-> Null,
     nusService |-> Null,
     nusChar |-> Null,
     notificationHandler |-> Null,
     pc |-> "idle",
     call |-> 0,
     connected |-> {},
     notifying |-> {},
     listeners |-> <<>>,
     out |-> <<>>,
     released |-> <<>>,
     ops |-> <<>>]

NusIdle == nus = NewNusSensor

NusDid(n, op, out, released) ==
    [n EXCEPT !.ops = LastTwo(nus.ops, op), !.out = out, !.released = released]

\* Lines 142-144: start() runs up to the await of requestDevice.
NusStart ==
    /\ nus.pc \in {"idle", "done", "failed"}
    /\ nus.call < MaxNusStarts
    /\ nus' = NusDid([nus EXCEPT !.pc = "requestDevice", !.call = @ + 1],
                     "start", <<>>, <<>>)
    /\ UNCHANGED notNusVars

\* Lines 144-167: the promise start() awaits resolves and start() runs to its
\* next await, or to its end.
nusResolved(n) ==
    LET k == n.call
    IN  CASE n.pc = "requestDevice" ->
                [n EXCEPT !.device = Handle("device", k), !.pc = "connect"]
          [] n.pc = "connect" ->
                [n EXCEPT !.server = Handle("server", k),
                          !.connected = @ \cup {k},
                          !.pc = "getPrimaryService"]
          [] n.pc = "getPrimaryService" ->
                [n EXCEPT !.nusService = Handle("service", k),
                          !.pc = "getCharacteristic"]
          [] n.pc = "getCharacteristic" ->
                [n EXCEPT !.nusChar = Handle("characteristic", k),
                          !.notificationHandler = Handle("handler", k),
                          !.pc = "startNotifications"]
          [] n.pc = "startNotifications" ->
                [n EXCEPT !.notifying = @ \cup {k},
                          !.listeners = Append(@, k),
                          !.pc = "done"]

NusResolve ==
    /\ nus.pc \in RowsOf(NusAwaits)
    /\ nus' = NusDid(nusResolved(nus), "resolve", <<>>, <<>>)
    /\ UNCHANGED notNusVars

\* Lines 170-172: the promise start() awaits rejects; the catch emits the
\* error update and start() returns.
NusErrorUpdate(e) ==
    [temperature |-> Null, humidity |-> Null, apparentTemperature |-> Null,
     error |-> ErrorText(e)]

NusReject ==
    /\ nus.pc \in RowsOf(NusAwaits)
    /\ nus' = NusDid([nus EXCEPT !.pc = "failed"], "reject",
                     <<NusErrorUpdate(IF nus.pc = "requestDevice"
                                      THEN "NotFoundError" ELSE "NetworkError")>>,
                     <<>>)
    /\ UNCHANGED notNusVars

\* Lines 174-186: stop().  A start() call at an await is not told.
nusStop(n) ==
    LET unlisten == n.nusChar # Null /\ n.notificationHandler # Null
        disconnect == n.server # Null /\ n.server.id \in n.connected
    IN  [n EXCEPT !.listeners = IF unlisten
                                THEN Remove(@, n.notificationHandler.id) ELSE @,
                  !.connected = IF disconnect THEN @ \ {n.server.id} ELSE @,
                  !.notifying = IF disconnect THEN @ \ {n.server.id} ELSE @,
                  !.device = Null,
                  !.server = Null,
                  !.nusService = Null,
                  !.nusChar = Null,
                  !.notificationHandler = Null,
                  !.released =
                      (IF unlisten THEN <<"removeEventListener">> ELSE <<>>)
                          \o (IF disconnect THEN <<"disconnect">> ELSE <<>>)]

NusStop ==
    /\ nus' = [nusStop(nus) EXCEPT !.ops = LastTwo(nus.ops, "stop"), !.out = <<>>]
    /\ UNCHANGED notNusVars

\* Lines 153-165: notificationHandler of call k on a value of the
\* characteristic.
HandlerUpdates(value) ==
    LET decoded == decodeRuuviDF5(value)
    IN  IF decoded.tag = "measurement"
        THEN <<[temperature |-> decoded.temperature,
                humidity |-> decoded.humidity,
                apparentTemperature |->
                    apparentTemperature(decoded.temperature, decoded.humidity),
                error |-> NoError]>>
        ELSE <<>>

RECURSIVE NotifyAll(_, _)
NotifyAll(listeners, value) ==
    IF listeners = <<>> THEN <<>>
    ELSE HandlerUpdates(value) \o NotifyAll(Tail(listeners), value)

NusValues == {GoodFrame, SentinelFrame, ShortFrame}

\* A 'characteristicvaluechanged' event of a characteristic that notifies, on
\* an open connection; every handler registered on it runs.
NusNotification(value) ==
    /\ \E k \in nus.notifying : k \in nus.connected
    /\ nus' = NusDid(nus, "notification",
                     NotifyAll(SelectSeq(nus.listeners,
                                         LAMBDA k : k \in nus.notifying \cap nus.connected),
                               value),
                     <<>>)
    /\ UNCHANGED notNusVars

\* The link to a connected device is lost: server.connected turns false and
\* its notifications end.
NusLinkLost(k) ==
    /\ k \in nus.connected
    /\ nus' = NusDid([nus EXCEPT !.connected = @ \ {k}, !.notifying = @ \ {k}],
                     "linkLost", <<>>, <<>>)
    /\ UNCHANGED notNusVars

-----------------------------------------------------------------------------
(* RuuviApp: the component that owns the sources, src/unnamed/part_002:17-264 *)

MaxInstances == 2

\* Line 21: the reading before any update.
NoReading ==
    [temperature |-> Null, humidity |-> Null, apparentTemperature |-> Null,
     error |-> NoError, by |-> 0]

\* A source object made by startSensor (lines 61, 63).  start is where its
\* start() call is; held says that it holds its scan and listener (scan
\* source) or a live timer (synthetic source); click is where the Connect
\* click that made it is (lines 118-120).
ScanInstance ==
    [type |-> "scan", start |-> "awaitRequestLEScan", held |-> FALSE,
     click |-> "awaitStartSensor"]
DebugInstance ==
    [type |-> "debug", start |-> "done", held |-> TRUE, click |-> "none"]

\* Line 23: the device attribution before any update.
NoDevice == [name |-> Null, mac |-> Null]

\* The names a radio event can carry for its device: none, or a name.
DeviceNames == {Null, [kind |-> "string", v |-> "Ruuvi 1A2B"]}

\* Lines 19-24 and the module's wakeLock: the component as first rendered.
\* sensorRef is the index of the source in inst, 0 for null.  Of the latest
\* step, accepted counts the readings setSensor was given, logged the
\* logSample calls, failed those of them whose write was refused, row is the
\* row of the last one, heard the device name of the radio event and did what
\* a press of 'Fake löyly' did.  storage says whether db.samples.add works.
NewApp ==
    [connectionState |-> "idle",
     debugMode |-> FALSE,
     sensor |-> NoReading,
     error |-> Null,
     deviceInfo |-> NoDevice,
     sensorRef |-> 0,
     wakeLock |-> FALSE,
     inst |-> <<>>,
     storage |-> "ok",
     accepted |-> 0,
     logged |-> 0,
     failed |-> 0,
     row |-> Null,
     heard |-> Null,
     did |-> "none"]

AppIdle == app = NewApp

\* Lines 160-176: the effect on [sensor, connectionState, deviceInfo].
HasReading(s) == ~(s.apparentTemperature = Null /\ s.temperature = Null)

\* An object spread with further keys, { ...base, k: v }.
Spread(base, over) == over @@ base

\* Lines 170-174: the sample, the reading with the clock's time.
Sample(a) == Spread(a.sensor, [ts |-> Num(store.now)])

\* part_003:19-24: the row logSample hands to db.samples.add.
logSample(sample, deviceInfo) ==
    Spread(sample, [deviceName |-> IF deviceInfo.name \in {Null, Undefined}
                                   THEN Null ELSE deviceInfo.name,
                    deviceMac |-> IF deviceInfo.mac \in {Null, Undefined}
                                  THEN Null ELSE deviceInfo.mac])

\* Line 175 calls logSample and drops the promise it returns: when the add
\* is refused, the promise rejects with no handler on it and no state is set.
Effect(a) ==
    IF ~HasReading(a.sensor) THEN a
    ELSE [a EXCEPT !.connectionState = IF @ = "connecting" THEN "connected" ELSE @,
                   !.logged = @ + 1,
                   !.row = logSample(Sample(a), a.deviceInfo),
                   !.failed = IF a.storage = "failing" THEN @ + 1 ELSE @]

\* A render after the state setters of one synchronous stretch: the effect
\* runs when sensor was set or connectionState differs from the one last
\* rendered, and again when it has itself changed connectionState.  A reading
\* given to setSensor is counted.
Commit(prev, a, sensorSet) ==
    IF sensorSet \/ a.connectionState # prev.connectionState
    THEN LET c == IF sensorSet /\ HasReading(a.sensor)
                  THEN [a EXCEPT !.accepted = @ + 1] ELSE a
             b == Effect(c)
         IN  IF b.connectionState # c.connectionState THEN Effect(b) ELSE b
    ELSE a

\* stop() of the source the ref holds (src/ruuvi.js:78-83, 113-117): it
\* releases what the source holds now; a pending start() is not told.
StopRef(a) ==
    IF a.sensorRef = 0 THEN a
    ELSE [a EXCEPT !.inst[a.sensorRef].held = FALSE]

\* Lines 55-79: startSensor from the reset of the reading on; the source is
\* created, stored in the ref and its start() called.
StartNew(a, isDebug) ==
    LET i == Len(a.inst) + 1
        b == [a EXCEPT !.sensor = NoReading, !.error = Null,
                       !.deviceInfo = NoDevice,
                       !.inst = Append(@, IF isDebug THEN DebugInstance
                                          ELSE ScanInstance),
                       !.sensorRef = i]
    IN  IF isDebug
        THEN [b EXCEPT !.sensor =
                  DebugUpdate(debugStart(NewDebugSensor, 1)) @@ [by |-> i]]
        ELSE b

\* Lines 51-85: startSensor up to the await of s.start().  With a source in
\* the ref, line 53 stops it and awaits, and a render comes in between.
startSensor(prev, a, isDebug) ==
    IF a.sensorRef = 0
    THEN Commit(prev, StartNew(a, isDebug), TRUE)
    ELSE LET stopped == Commit(prev, StopRef(a), FALSE)
         IN  Commit(stopped, StartNew(stopped, isDebug), TRUE)

\* Lines 87-95.
stopSensor(prev, a) ==
    LET stopped == IF a.sensorRef = 0 THEN prev ELSE Commit(prev, StopRef(a), FALSE)
        b == IF a.sensorRef = 0 THEN a ELSE stopped
    IN  Commit(stopped,
               [b EXCEPT !.sensorRef = 0, !.sensor = NoReading, !.error = Null,
                         !.connectionState = "idle"],
               TRUE)

Fresh(a) ==
    [a EXCEPT !.accepted = 0, !.logged = 0, !.failed = 0, !.row = Null,
              !.heard = Null]

\* Lines 103-112: a click on 'Disconnect'.
Disconnect ==
    /\ app.connectionState = "connected"
    /\ app' = [stopSensor(app, [Fresh(app) EXCEPT !.connectionState = "disconnecting"])
                  EXCEPT !.wakeLock = FALSE]
    /\ UNCHANGED notAppVars

\* Lines 114-118: a click on 'Connect', up to the await of requestLEScan
\* inside the new source's start().
Connect ==
    /\ app.connectionState = "idle"
    /\ Len(app.inst) < MaxInstances
    /\ app' = startSensor(app,
                          [Fresh(app) EXCEPT !.debugMode = FALSE,
                                             !.connectionState = "connecting"],
                          FALSE)
    /\ UNCHANGED notAppVars

\* Lines 134-145: a press of 'Fake löyly'.  The first one starts a synthetic
\* source, whose start() emits at once and returns, and line 83 follows.
FakeLoylyClick ==
    /\ app.debugMode \/ Len(app.inst) < MaxInstances
    /\ app' =
          IF ~app.debugMode
          THEN LET a == startSensor(app,
                                    [Fresh(app) EXCEPT !.debugMode = TRUE,
                                                       !.connectionState = "connecting"],
                                    TRUE)
               IN  [Commit(a, [a EXCEPT !.connectionState = "connected"], FALSE)
                       EXCEPT !.did = "started"]
          ELSE [Fresh(app) EXCEPT !.did =
                    IF app.sensorRef # 0 /\ app.inst[app.sensorRef].type = "debug"
                    THEN "raised" ELSE "nothing"]
    /\ UNCHANGED notAppVars

\* src/ruuvi.js:57-73 for source i: requestLEScan resolves, the source takes
\* the scan and registers its listener; startSensor returns and line 120
\* awaits the wake lock.
AppScanGranted(i) ==
    /\ app.inst[i].type = "scan"
    /\ app.inst[i].start = "awaitRequestLEScan"
    /\ app' = [Fresh(app) EXCEPT !.inst[i].start = "done",
                                 !.inst[i].held = TRUE,
                                 !.inst[i].click = "awaitWakeLock"]
    /\ UNCHANGED notAppVars

\* Lines 64-69: the callback on an update that carries an error.  rendered
\* is the connectionState of the render whose startSensor made the callback.
OnErrorClearsReading(a, message, rendered) ==
    [a EXCEPT !.error = message, !.sensor = NoReading]
OnError(a, message, rendered) ==
    [a EXCEPT !.error = message,
              !.connectionState = IF rendered = "connecting" THEN "idle" ELSE @]

\* src/ruuvi.js:74-76 for source i: requestLEScan rejects and the error
\* update reaches the callback, made in the render that handled the click,
\* where connectionState was "idle" (line 114); start() returns, so does
\* startSensor, and line 120 awaits the wake lock.
AppScanDenied(i) ==
    /\ app.inst[i].type = "scan"
    /\ app.inst[i].start = "awaitRequestLEScan"
    /\ app' = Commit(app,
                     OnError([Fresh(app) EXCEPT !.inst[i].start = "failed",
                                                !.inst[i].click = "awaitWakeLock"],
                             ErrorText("NotAllowedError"), "idle"),
                     FALSE)
    /\ UNCHANGED notAppVars

\* Line 120: the wake lock is granted.
WakeLockGranted(i) ==
    /\ app.inst[i].click = "awaitWakeLock"
    /\ app' = [Fresh(app) EXCEPT !.inst[i].click = "done", !.wakeLock = TRUE]
    /\ UNCHANGED notAppVars

\* Lines 122-129: the wake lock is refused; the catch stops whatever source
\* the ref holds by then.
WakeLockDenied(i) ==
    /\ app.inst[i].click = "awaitWakeLock"
    /\ app' = LET a == [Fresh(app) EXCEPT !.inst[i].click = "done",
                                          !.error = ErrorText("NotAllowedError"),
                                          !.connectionState = "idle"]
              IN  [Commit(app, StopRef(a), FALSE) EXCEPT !.sensorRef = 0]
    /\ UNCHANGED notAppVars

\* src/ruuvi.js:66-70: the second argument of the listener's onUpdate call.
\* The call has one argument, whatever name the event carries.
AdvMeta(name) == Undefined

\* Lines 70-75: the callback on an update that carries no error.
OnUpdate(a, update, meta) ==
    LET b == [a EXCEPT !.sensor = update]
    IN  IF meta # Undefined /\ meta # Null /\ (meta.name # Null \/ meta.mac # Null)
        THEN [b EXCEPT !.deviceInfo = [name |-> meta.name, mac |-> meta.mac]]
        ELSE b

\* Lines 63-76 on the updates of one event, each followed by the render and
\* the effect.
RECURSIVE Deliver(_, _, _)
Deliver(a, ups, meta) ==
    IF ups = <<>> THEN a
    ELSE Deliver(Commit(a, OnUpdate(a, Head(ups), meta), TRUE), Tail(ups), meta)

\* An advertisement of a device with this name reaches the listener of
\* source i, which holds a scan.
AppAdvertisement(i, entries, name) ==
    /\ app.inst[i].type = "scan"
    /\ app.inst[i].held
    /\ app' = Deliver([Fresh(app) EXCEPT !.heard = name],
                      ListenerUpdates(i, entries), AdvMeta(name))
    /\ UNCHANGED notAppVars

\* The timer of synthetic source i fires (src/ruuvi.js:101-110, line 61).
AppTick(i) ==
    /\ app.inst[i].type = "debug"
    /\ app.inst[i].held
    /\ app' = Deliver(Fresh(app),
                      <<DebugUpdate(debugTick(debugStart(NewDebugSensor, 1)))
                            @@ [by |-> i]>>,
                      Undefined)
    /\ UNCHANGED notAppVars

\* part_003:24: from now on db.samples.add rejects (the quota is used up or
\* the database is gone).
StorageFails ==
    /\ app.storage = "ok"
    /\ app' = [Fresh(app) EXCEPT !.storage = "failing"]
    /\ UNCHANGED notAppVars

-----------------------------------------------------------------------------
(* RuuviApp of the single-file application: the history it keeps in memory,
   src/App.jsx:258-330 *)

MaxHistoryNow == 4
MaxHistoryUpdates == 4

\* src/App.jsx:141.
WINDOW_MS == 5 * 60 * 1000

\* The clock is read in steps of half a window.
ClockStep == WINDOW_MS \div 2

\* Line 262 and the clock: no entry yet.  at is the clock reading of the
\* latest update, all keeps every entry ever made.
NewHistory == [entries |-> <<>>, now |-> 0, at |-> Null, all |-> <<>>]

HistoryIdle == history = NewHistory

\* The values setSensor is given: the reset of lines 268 and 284, a reading.
HistoryReadings == {NoReading, DebugUpdate(debugStart(NewDebugSensor, 1))}

\* Line 326: the entry made of the sensor state.
Entry(sensor, now) ==
    [value |-> sensor.apparentTemperature, temperature |-> sensor.temperature,
     ts |-> now]

\* Line 328: the filter.
KeepAll(arr, now) == arr
KeepRecent(arr, now) == SelectSeq(arr, LAMBDA d : now - d.ts <= WINDOW_MS)

\* Lines 321-330: the effect on [sensor], after the first render and after
\* every setSensor.
HistoryUpdate(sensor) ==
    /\ Len(history.all) < MaxHistoryUpdates
    /\ history' =
          [history EXCEPT
              !.entries = KeepRecent(Append(@, Entry(sensor, history.now)),
                                     history.now),
              !.at = Num(history.now),
              !.all = Append(@, Entry(sensor, history.now))]
    /\ UNCHANGED notHistoryVars

\* Time passes between two readings of the clock.
HistoryAdvance ==
    /\ history.now < MaxHistoryNow * ClockStep
    /\ history' = [history EXCEPT !.now = @ + ClockStep]
    /\ UNCHANGED notHistoryVars

-----------------------------------------------------------------------------
\* The components after the scan source, untouched.
LaterIdle == DebugIdle /\ StoreIdle /\ NusIdle /\ AppIdle /\ HistoryIdle

-----------------------------------------------------------------------------
(* Specifications *)

\* The decoder on one argument.
InitDecode ==
    /\ input \in DataViews \cup NonDataViews
    /\ result = Pending
    /\ ATIdle
    /\ ScanIdle
    /\ LaterIdle

NextDecode == Decode

SpecDecode == InitDecode /\ [][NextDecode]_vars

\* apparentTemperature on one pair of arguments.
InitAT ==
    /\ atT \in ATInputsT
    /\ atRH \in ATInputsRH
    /\ atResult = Pending
    /\ DecoderIdle
    /\ ScanIdle
    /\ LaterIdle

NextAT == ATCall

SpecAT == InitAT /\ [][NextAT]_vars

\* One live scan source and the radio.
InitScan ==
    /\ ScanIdle
    /\ DecoderIdle
    /\ ATIdle
    /\ LaterIdle

NextScan ==
    \/ Start
    \/ \E i \in 1..Len(starts) : ScanGranted(i)
    \/ \E i \in 1..Len(starts) : ScanDenied(i)
    \/ Stop
    \/ \E entries \in AdvEvents : Advertisement(entries)

SpecScan == InitScan /\ [][NextScan]_vars

\* One synthetic source, its timers and its caller.
InitDebug ==
    /\ DebugIdle
    /\ DecoderIdle
    /\ ATIdle
    /\ ScanIdle
    /\ StoreIdle
    /\ NusIdle
    /\ AppIdle
    /\ HistoryIdle

NextDebug ==
    \/ DebugStart
    \/ DebugLoyly
    \/ \E t \in debug.timers : DebugTick(t)
    \/ DebugStop

SpecDebug == InitDebug /\ [][NextDebug]_vars

\* The relaxation after the last fakeLoyly(); the platform keeps firing a
\* timer that is set.
InitRelax ==
    /\ debug \in {LoylyTimes(debugStart(NewDebugSensor, 1), n) : n \in 0..MaxLoyly}
    /\ dbgN = NoCounts
    /\ DecoderIdle
    /\ ATIdle
    /\ ScanIdle
    /\ StoreIdle
    /\ NusIdle
    /\ AppIdle
    /\ HistoryIdle

NextRelax == \E t \in debug.timers : Relax(t)

SpecRelax == InitRelax /\ [][NextRelax]_vars /\ WF_vars(NextRelax)

\* The table, the clock and one mounted useRecentSamples.
InitStore ==
    /\ StoreIdle
    /\ DecoderIdle
    /\ ATIdle
    /\ ScanIdle
    /\ DebugIdle
    /\ NusIdle
    /\ AppIdle
    /\ HistoryIdle

NextStore ==
    \/ \E w \in 1..MaxWindow : Subscribe(w)
    \/ \E ts \in 0..MaxNow : LogSample(ts)
    \/ Requery
    \/ Unsubscribe
    \/ Advance

SpecStore == InitStore /\ [][NextStore]_vars

\* The store as the application uses it: every row is logged with the clock's
\* reading (part_002:170-175), and a query that is due is run, since liveQuery
\* schedules it.
NextStoreLive ==
    \/ \E w \in 1..MaxWindow : Subscribe(w)
    \/ LogSample(store.now)
    \/ Requery
    \/ Unsubscribe
    \/ Advance

SpecStoreLive == InitStore /\ [][NextStoreLive]_vars /\ WF_vars(Requery)

\* One connected live source and the GATT side.
InitNus ==
    /\ NusIdle
    /\ DecoderIdle
    /\ ATIdle
    /\ ScanIdle
    /\ DebugIdle
    /\ StoreIdle
    /\ AppIdle
    /\ HistoryIdle

NextNus ==
    \/ NusStart
    \/ NusResolve
    \/ NusReject
    \/ NusStop
    \/ \E value \in NusValues : NusNotification(value)
    \/ \E k \in nus.connected : NusLinkLost(k)

SpecNus == InitNus /\ [][NextNus]_vars

\* One source of any of the three variants: the first call decides which,
\* the other two stay as constructed.
InitSources ==
    /\ ScanIdle
    /\ DebugIdle
    /\ NusIdle
    /\ DecoderIdle
    /\ ATIdle
    /\ StoreIdle
    /\ AppIdle
    /\ HistoryIdle

NextSources ==
    \/ DebugIdle /\ NusIdle /\ NextScan
    \/ ScanIdle /\ NusIdle /\ NextDebug
    \/ ScanIdle /\ DebugIdle /\ NextNus

SpecSources == InitSources /\ [][NextSources]_vars

\* The application, its user and the radio.
InitApp ==
    /\ AppIdle
    /\ HistoryIdle
    /\ DecoderIdle
    /\ ATIdle
    /\ ScanIdle
    /\ DebugIdle
    /\ StoreIdle
    /\ NusIdle

NextApp ==
    \/ Connect
    \/ Disconnect
    \/ FakeLoylyClick
    \/ \E i \in 1..Len(app.inst) : AppScanGranted(i)
    \/ \E i \in 1..Len(app.inst) : AppScanDenied(i)
    \/ \E i \in 1..Len(app.inst) : WakeLockGranted(i)
    \/ \E i \in 1..Len(app.inst) : WakeLockDenied(i)
    \/ \E i \in 1..Len(app.inst), entries \in AdvEvents, name \in DeviceNames :
          AppAdvertisement(i, entries, name)
    \/ \E i \in 1..Len(app.inst) : AppTick(i)
    \/ StorageFails

SpecApp == InitApp /\ [][NextApp]_vars

\* The history of the single-file application, its sensor state and the
\* clock.
InitHistory ==
    /\ HistoryIdle
    /\ DecoderIdle
    /\ ATIdle
    /\ ScanIdle
    /\ DebugIdle
    /\ StoreIdle
    /\ NusIdle
    /\ AppIdle

NextHistory ==
    \/ \E sensor \in HistoryReadings : HistoryUpdate(sensor)
    \/ HistoryAdvance

SpecHistory == InitHistory /\ [][NextHistory]_vars

\* The same, with every pending promise settled: requestLEScan and
\* wakeLock.request resolve or reject.
SpecAppLive ==
    /\ SpecApp
    /\ WF_vars(\E i \in 1..Len(app.inst) : AppScanGranted(i) \/ AppScanDenied(i))
    /\ WF_vars(\E i \in 1..Len(app.inst) : WakeLockGranted(i) \/ WakeLockDenied(i))

-----------------------------------------------------------------------------
(* Properties of decodeRuuviDF5, under SpecDecode *)

Called == result # Pending
IsView == input.kind = "DataView"

\* The big-endian words of the frame, written out from its bytes.
WordAt(off) == input.bytes[off + 1] * 256 + input.bytes[off + 2]
SignedWordAt(off) == IF WordAt(off) >= 32768 THEN WordAt(off) - 65536 ELSE WordAt(off)

AbsentOrWithin(x, lo, hi) == x = Null \/ (x.kind = "number" /\ lo <= x.v /\ x.v <= hi)

\* C1: a frame whose length is not exactly 24 bytes, whatever its first
\* byte, decodes to null, never to a Measurement.
C1_WrongLengthIsNull ==
    (Called /\ IsView /\ Len(input.bytes) # 24) => result = NullResult

\* C2: a 24-byte frame whose byte 0 is not 0x05 decodes to null; a
\* Measurement comes only from a frame whose byte 0 is 0x05.
C2_OtherFormatIsNull ==
    (Called /\ IsView /\ Len(input.bytes) = 24) =>
        /\ input.bytes[1] # 5 => result = NullResult
        /\ result.tag = "measurement" => input.bytes[1] = 5

\* C3: the call never propagates an exception, whatever the argument: it
\* returns a Measurement or null.
C3_NeverThrows ==
    Called => result.tag \in {"measurement", "null"}

\* C4: in every Measurement a field whose raw value is its sentinel
\* (-32768 for temperature and the acceleration axes, 0xFFFF for humidity and
\* pressure) is null, and no field holds the number a sentinel converts to.
C4_SentinelIsAbsent ==
    result.tag = "measurement" =>
        /\ SignedWordAt(1) = -32768 => result.temperature = Null
        /\ WordAt(3) = 65535 => result.humidity = Null
        /\ WordAt(5) = 65535 => result.pressure = Null
        /\ SignedWordAt(7) = -32768 => result.acceleration_x = Null
        /\ SignedWordAt(9) = -32768 => result.acceleration_y = Null
        /\ SignedWordAt(11) = -32768 => result.acceleration_z = Null
        /\ result.temperature # Num(-32768 * 50)
        /\ result.humidity # Num(65535 * 25)
        /\ result.pressure # Num((65535 + 50000) * 100)
        /\ Num(-32768) \notin {result.acceleration_x, result.acceleration_y,
                               result.acceleration_z}

\* C4 happens: a Measurement decoded from a frame whose temperature, humidity
\* and x-axis words are all sentinels.
C4_Witness ==
    /\ result.tag = "measurement"
    /\ SignedWordAt(1) = -32768
    /\ WordAt(3) = 65535
    /\ SignedWordAt(7) = -32768
    /\ result.temperature = Null
    /\ result.humidity = Null

\* C5: battery is 1600 + the 11-bit voltage field of the 2-byte power field
\* at offsets 13-14, null when the field is all ones; txPower is -40 + 2 * the
\* 5-bit tx field, null when that field is 0b11111.
C5_PowerFieldIsTwoBytes ==
    result.tag = "measurement" =>
        LET voltageField == WordAt(13) \div 32
            txField == WordAt(13) % 32
        IN  /\ result.battery =
                  IF voltageField = 2047 THEN Null ELSE Num(1600 + voltageField)
            /\ result.txPower =
                  IF txField = 31 THEN Null ELSE Num(-40 + 2 * txField)

\* C6: every 24-byte frame with discriminator 0x05 decodes to a Measurement
\* whose non-null temperature is in [-163.84, 163.835], humidity in
\* [0, 163.835] and pressure in [500, 1155.34].
C6_FieldsInRange ==
    (Called /\ IsView /\ Len(input.bytes) = 24 /\ input.bytes[1] = 5) =>
        /\ result.tag = "measurement"
        /\ AbsentOrWithin(result.temperature, -1638400, 1638350)
        /\ AbsentOrWithin(result.humidity, 0, 1638350)
        /\ AbsentOrWithin(result.pressure, 5000000, 11553400)

\* C6 happens: a 24-byte 0x05 frame decoded with temperature and pressure at
\* the upper ends of their ranges.
C6_Witness ==
    /\ Called /\ IsView /\ Len(input.bytes) = 24 /\ input.bytes[1] = 5
    /\ result.tag = "measurement"
    /\ result.temperature = Num(1638350)
    /\ result.pressure = Num(11553400)
    /\ result.humidity = Num(0)

\* C7: on every accepted frame temperature is the signed big-endian word at
\* offset 1 divided by 200, humidity the unsigned big-endian word at offset 3
\* divided by 400, pressure (the unsigned big-endian word at offset 5 + 50000)
\* / 100, each unless the word is the field's sentinel; bytes 0x01 0x57 give
\* temperature 1.715.
C7_BigEndianFields ==
    result.tag = "measurement" =>
        /\ SignedWordAt(1) # -32768 =>
              result.temperature = Num((SignedWordAt(1) * Scale) \div 200)
        /\ WordAt(3) # 65535 =>
              result.humidity = Num((WordAt(3) * Scale) \div 400)
        /\ WordAt(5) # 65535 =>
              result.pressure = Num((WordAt(5) + 50000) * (Scale \div 100))
        /\ (input.bytes[2] = 1 /\ input.bytes[3] = 87) =>
              result.temperature = Num(17150)

\* C7 happens: a frame with temperature bytes 0x01 0x57 and humidity word
\* 20000 decoded to 1.715 and 50.
C7_Witness ==
    /\ result.tag = "measurement"
    /\ input.bytes[2] = 1 /\ input.bytes[3] = 87
    /\ WordAt(3) = 20000
    /\ result.temperature = Num(17150)
    /\ result.humidity = Num(50 * Scale)

-----------------------------------------------------------------------------
(* Properties of apparentTemperature, under SpecAT *)

ATCalled == atResult # Pending
ValidNumber(x) == x.kind = "number"

Distance(a, b) == IF a >= b THEN a - b ELSE b - a

\* C8 as stated: the call never raises; it returns null whenever either
\* argument is absent or not a valid number, and a number only when both are
\* valid numbers.
C8_MalformedIsAbsent ==
    ATCalled =>
        /\ atResult.tag = "return"
        /\ (~ValidNumber(atT) \/ ~ValidNumber(atRH)) => atResult.value = Null
        /\ atResult.value # Null => (ValidNumber(atT) /\ ValidNumber(atRH))

\* C8, amended: on null, undefined and numbers (NaN among them) the call
\* never raises; it returns null exactly when either argument is null or
\* undefined; a NaN argument is not made absent but comes back as NaN; it
\* returns a valid number only when both arguments are valid numbers.
C8_AbsentIsAbsent ==
    ATCalled =>
        /\ atResult.tag = "return"
        /\ atResult.value = Null <=> (LooseNull(atT) \/ LooseNull(atRH))
        /\ (~LooseNull(atT) /\ ~LooseNull(atRH) /\ NaN \in {atT, atRH}) =>
              atResult.value = NaN
        /\ ValidNumber(atResult.value) => (ValidNumber(atT) /\ ValidNumber(atRH))

\* C8 happens: the call on (undefined, a number) returned null, and so did
\* the call's null check.
C8_Witness ==
    /\ ATCalled
    /\ atT = Undefined
    /\ ValidNumber(atRH)
    /\ atResult.value = Null

\* C9 as stated: apparentTemperature(20, 50) is 19.99, to within 0.01.
C9_Is1999 ==
    (ATCalled /\ atT = Num(20 * Scale) /\ atRH = Num(50 * Scale)) =>
        /\ atResult.value.kind = "number"
        /\ Distance(atResult.value.v, 199900) <= 100

\* C9, amended: apparentTemperature(20, 50), computed as T + 0.33*e - 4.00
\* with e = (RH/100) * 6.105 * exp(17.27*T / (237.7+T)), is 19.85, to within
\* 0.01.
C9_Is1985 ==
    (ATCalled /\ atT = Num(20 * Scale) /\ atRH = Num(50 * Scale)) =>
        /\ atResult.value.kind = "number"
        /\ Distance(atResult.value.v, 198500) <= 100

\* C9 happens: the call on (20, 50) has returned a number.
C9_Witness ==
    /\ ATCalled
    /\ atT = Num(20 * Scale)
    /\ atRH = Num(50 * Scale)
    /\ atResult.value.kind = "number"

-----------------------------------------------------------------------------
(* Properties of the live scan source, under SpecScan *)

InSeq(x, seq) == \E k \in 1..Len(seq) : seq[k] = x

\* C10: once stop() was called while start() call i was in flight and that
\* call has completed, nothing of call i is registered (no scan, no listener)
\* and the source has emitted no update through it.
C10_StopAbortsStart ==
    \A i \in 1..Len(starts) :
        (stopLog[i] /\ starts[i] # "awaitRequestLEScan") =>
            /\ i \notin radio.scans
            /\ ~InSeq(i, radio.listeners)
            /\ \A k \in 1..Len(updates) : updates[k].by # i

\* The entries of an event that pass the filter of line 60 and that the
\* decoder turns into a measurement.
RECURSIVE AcceptedEntries(_)
AcceptedEntries(entries) ==
    IF entries = <<>> THEN 0
    ELSE (IF /\ Head(entries)[1] = 1177
             /\ Len(Head(entries)[2].bytes) = 24
             /\ decodeRuuviDF5(Head(entries)[2]).tag = "measurement"
          THEN 1 ELSE 0) + AcceptedEntries(Tail(entries))

\* The updates the latest operation on the scan source emitted.
ScanEmitted == SubSeq(updates, Len(updates) - scanLast.emitted + 1, Len(updates))

ScanLatestOp ==
    IF scanLast.ops = <<>> THEN "none" ELSE scanLast.ops[Len(scanLast.ops)]

\* C26: an advertisement makes the scan source emit one update for each of
\* its entries that has company id 0x0499, 24 bytes and a frame the decoder
\* accepts, and nothing else; none of these updates carries an error.
C26_OneUpdatePerAcceptedEntry ==
    ScanLatestOp = "advertisement" =>
        /\ scanLast.emitted = AcceptedEntries(scanLast.event)
        /\ \A k \in 1..Len(ScanEmitted) : ScanEmitted[k].error = NoError

-----------------------------------------------------------------------------
(* Properties of the synthetic source, under SpecDebug and SpecRelax *)

BaselineRH == BASELINE_RH * Scale
BaselineTemp == BASELINE_TEMP * Scale

LatestOp == IF debug.ops = <<>> THEN "none" ELSE debug.ops[Len(debug.ops)]

\* C14: after stop() has returned and until start() is called again, the
\* source passes no update to onUpdate: whatever operation ran last while the
\* source is stopped, it emitted nothing.
C14_StoppedIsSilent == ~debug.running => debug.out = <<>>

\* C15: every start() leaves the four values at baseline and emits exactly
\* one update, with humidity 5 and temperature 60; every tick emits exactly
\* one update.
C15_StartEmitsBaseline ==
    [][/\ dbgN'.starts # dbgN.starts =>
            /\ debug'.trueRH = BaselineRH /\ debug'.fakeRH = BaselineRH
            /\ debug'.trueTemp = BaselineTemp /\ debug'.fakeTemp = BaselineTemp
            /\ Len(debug'.out) = 1
            /\ debug'.out[1].humidity = Num(BaselineRH)
            /\ debug'.out[1].temperature = Num(BaselineTemp)
            /\ debug'.out[1].error = NoError
       /\ dbgN'.ticks # dbgN.ticks => Len(debug'.out) = 1]_vars

\* A second start() after a first run that was spiked and ticked.
C15_Witness ==
    /\ debug.ops = <<"tick", "start">>
    /\ dbgN.starts = 2
    /\ dbgN.loyly > 0

\* What fakeLoyly() must leave alone: everything but trueRH (and the record
\* of the latest operations and of what they emitted).
Besides(d) ==
    [d EXCEPT !.trueRH = 0, !.out = <<>>, !.released = <<>>, !.ops = <<>>,
              !.pre = 0, !.spiked = 0]

\* C16: fakeLoyly() sets trueRH to min(trueRH + 10, 100), changes nothing
\* else and emits nothing; trueRH is always within [5, 100].
C16_LoylyClamped ==
    /\ [](debug.trueRH >= BaselineRH /\ debug.trueRH <= 100 * Scale)
    /\ [][dbgN'.loyly # dbgN.loyly =>
            /\ debug'.trueRH = Min(debug.trueRH + 10 * Scale, 100 * Scale)
            /\ Besides(debug') = Besides(debug)
            /\ debug'.out = <<>>]_vars

\* A fakeLoyly() that the clamp cut short.
C16_Witness ==
    /\ LatestOp = "fakeLoyly"
    /\ debug.trueRH = 100 * Scale
    /\ debug.pre > 90 * Scale

AfterSpikeAndTick == debug.ops = <<"fakeLoyly", "tick">>

\* Where one tick takes a trueRH of 100.
ClampedDecay == 100 * Scale - MulFix(95 * Scale, 800)

\* C17 as stated: after fakeLoyly() and one tick, trueRH is below the spiked
\* value and above the value before the spike.
C17_SpikeThenDecay ==
    AfterSpikeAndTick =>
        /\ debug.trueRH < debug.spiked
        /\ debug.trueRH > debug.pre

\* C17: after fakeLoyly() and one tick, trueRH is below the spiked value; it
\* is above the value before the spike exactly when that value was below 92.4,
\* where one tick takes the clamped spike of 100.
C17_SpikeThenDecayBelowClamp ==
    AfterSpikeAndTick =>
        /\ debug.trueRH < debug.spiked
        /\ debug.trueRH > debug.pre <=> debug.pre < ClampedDecay

\* A spike from 92.4 or more, clamped at 100, one tick later.
C17_Witness ==
    /\ AfterSpikeAndTick
    /\ debug.pre >= ClampedDecay
    /\ debug.trueRH <= debug.pre

\* C18: a tick with trueRH above baseline lowers it by
\* max((trueRH - baseline) * 0.08, 0.05), not below baseline; with no further
\* fakeLoyly(), trueRH comes to equal the baseline and stays there.
C18_RelaxesToBaseline ==
    /\ [][debug'.trueRH =
            IF debug.trueRH > BaselineRH
            THEN Max(debug.trueRH - Max(MulFix(debug.trueRH - BaselineRH, 800), 500),
                     BaselineRH)
            ELSE debug.trueRH]_vars
    /\ <>[](debug.trueRH = BaselineRH)

\* Back at baseline from a spike that had reached 100.
C18_Witness ==
    /\ debug.ops = <<"tick", "tick">>
    /\ debug.spiked = 100 * Scale
    /\ debug.trueRH = BaselineRH

-----------------------------------------------------------------------------
(* Properties of the sample window, under SpecStore *)

Queried == recent.queriedAt # Null

\* The rows the table held when the delivered window was computed.
RowsQueried == {store.rows[k] : k \in 1..recent.queriedRows}

\* C19: the delivered window holds exactly the rows of the table whose age
\* at query time, now - ts, is at most windowMs; a row of age exactly
\* windowMs is in it.
C19_WindowIsInclusive ==
    Queried =>
        RowsOf(recent.samples) =
            {r \in RowsQueried : recent.queriedAt.v - r.ts <= recent.windowMs.v}

Ascending(seq) == \A i, j \in 1..Len(seq) : i < j => seq[i].ts <= seq[j].ts

\* C20: the delivered window is in ascending order of ts, and its last
\* element has the greatest ts of the window, in whatever order the rows were
\* added.
C20_WindowAscending ==
    /\ Ascending(recent.samples)
    /\ recent.samples # <<>> =>
          \A k \in 1..Len(recent.samples) :
              recent.samples[k].ts <= recent.samples[Len(recent.samples)].ts

\* A window of two rows that were added latest first.
C20_Witness ==
    /\ Len(recent.samples) >= 2
    /\ \E r, q \in RowsOf(recent.samples) : r.id < q.id /\ r.ts > q.ts

\* C21: a row in the table while the subscription is live is followed by a
\* delivery of a window computed from a table that holds it, unless the
\* subscription is closed first; a closed subscription gets no delivery and
\* stays closed, however often it is unsubscribed.
C21_RedeliveryUntilUnsubscribed ==
    /\ \A k \in 1..MaxRows :
          (Len(store.rows) >= k /\ recent.sub = "live")
              ~> (recent.queriedRows >= k \/ recent.sub = "closed")
    /\ [][recent.sub = "closed" =>
            /\ recent'.sub = "closed"
            /\ recent'.delivered = recent.delivered
            /\ recent'.samples = recent.samples]_vars

\* Two deliveries, then two unsubscribe calls and an append that was not
\* delivered.
C21_Witness ==
    /\ recent.delivered >= 2
    /\ recent.unsubs = 2
    /\ Len(store.rows) > recent.queriedRows

-----------------------------------------------------------------------------
(* Properties of the connected live source, under SpecNus *)

NusLatestOp == IF nus.ops = <<>> THEN "none" ELSE nus.ops[Len(nus.ops)]

\* C12: when an await of start() has rejected, the source has emitted exactly
\* one update, which carries the error and no temperature, humidity or
\* apparentTemperature, and it retains nothing of the radio: no connection of
\* that call is open and no handler of it is registered.
C12_FailedStartIsIdle ==
    NusLatestOp = "reject" =>
        /\ Len(nus.out) = 1
        /\ nus.out[1].error.kind = "string"
        /\ nus.out[1].temperature = Null
        /\ nus.out[1].humidity = Null
        /\ nus.out[1].apparentTemperature = Null
        /\ nus.call \notin nus.connected
        /\ ~InSeq(nus.call, nus.listeners)

-----------------------------------------------------------------------------
(* Properties of stop() on every variant, under SpecSources *)

TwoStops == <<"stop", "stop">>

\* The source's own state and the platform's, without the record of the
\* latest operations.
DebugState(d) == [d EXCEPT !.ops = <<>>, !.released = <<>>, !.out = <<>>]
NusState(n) == [n EXCEPT !.ops = <<>>, !.released = <<>>, !.out = <<>>]

\* C13: on the scan source, the synthetic source and the connected source, a
\* stop() that directly follows a stop() makes no release call, emits no
\* update and leaves the source and the platform as the first stop() left
\* them.
C13_SecondStopDoesNothing ==
    /\ [](/\ scanLast.ops = TwoStops =>
                scanLast.released = <<>> /\ scanLast.emitted = 0
          /\ debug.ops = TwoStops => debug.released = <<>> /\ debug.out = <<>>
          /\ nus.ops = TwoStops => nus.released = <<>> /\ nus.out = <<>>)
    /\ [][/\ scanLast'.ops = TwoStops =>
                UNCHANGED <<bleScan, advListener, starts, radio, updates, stopLog>>
          /\ debug'.ops = TwoStops => DebugState(debug') = DebugState(debug)
          /\ nus'.ops = TwoStops => NusState(nus') = NusState(nus)]_vars

\* The connected source, started through to its end and stopped twice.
C13_Witness ==
    /\ nus.ops = TwoStops
    /\ nus.pc = "done"

\* The same of the synthetic source after a run, and of the scan source
\* after a granted scan.
C13_WitnessDebug == debug.ops = TwoStops /\ dbgN.ticks > 0
C13_WitnessScan == scanLast.ops = TwoStops /\ InSeq("done", starts)

-----------------------------------------------------------------------------
(* Properties of the application, under SpecApp *)

\* The sources that can emit updates: a scan source holding its scan and
\* listener, a synthetic source with a live timer.
ActiveSources == {i \in 1..Len(app.inst) : app.inst[i].held}

\* C11: at most one of the sources the application has made is active.
C11_OneActiveSource == Cardinality(ActiveSources) <= 1

-----------------------------------------------------------------------------
(* Properties of the logging of samples, under SpecApp *)

\* C22: in every step, the logSample calls are as many as the readings the
\* callback accepted: none is logged twice, none is skipped.
C22_OneAppendPerReading == app.logged = app.accepted

\* C23: a step in which a write to the store was refused leaves an error
\* for the user to see.
C23_WriteFailureObserved == app.failed > 0 => app.error # Null

\* The row of the latest step came from a reading of a scan source.
RowFromScan ==
    /\ app.row # Null
    /\ app.row.by \in 1..Len(app.inst)
    /\ app.inst[app.row.by].type = "scan"

\* C24: the row of a reading whose radio event named its device carries a
\* device name or address.
C24_AttributionPersisted ==
    (RowFromScan /\ app.heard # Null) =>
        (app.row.deviceName # Null \/ app.row.deviceMac # Null)

\* C25: the row of a reading decoded from a frame has the frame's measurement
\* sequence number, beside ts, temperature, humidity and apparentTemperature.
C25_RowHasSequenceNumber ==
    RowFromScan =>
        /\ {"ts", "temperature", "humidity", "apparentTemperature"}
               \subseteq DOMAIN app.row
        /\ \/ "measurement_sequence_number" \in DOMAIN app.row
           \/ "measurementSequenceNumber" \in DOMAIN app.row

-----------------------------------------------------------------------------
(* Properties of the component's states, under SpecApp and SpecAppLive *)

\* The start() of the source in the ref has failed and the component still
\* shows "connecting".
FailedWhileConnecting ==
    /\ app.connectionState = "connecting"
    /\ app.sensorRef # 0
    /\ app.inst[app.sensorRef].start = "failed"

\* C27: when start() of the live source has failed while the component is
\* "connecting", the error is shown and connectionState comes back to "idle".
C27_FailedStartReturnsToIdle ==
    /\ [](FailedWhileConnecting => app.error # Null)
    /\ FailedWhileConnecting ~> (app.connectionState = "idle")

\* The step is an error update of some source.
ErrorUpdate ==
    \E i \in 1..Len(app.inst) :
        /\ app.inst[i].start = "awaitRequestLEScan"
        /\ app'.inst[i].start = "failed"

\* C28: an error update sets the error message, leaves the reading as it
\* was and logs no sample.
C28_ErrorUpdateOnlySetsError ==
    [][ErrorUpdate =>
          /\ app'.error # Null
          /\ app'.sensor = app.sensor
          /\ app'.logged = 0]_vars

\* An error update has arrived while a reading is shown.
C28_Witness ==
    /\ HasReading(app.sensor)
    /\ app.error # Null
    /\ \E i \in 1..Len(app.inst) :
          app.inst[i].start = "failed" /\ app.inst[i].click = "awaitWakeLock"

\* C29: with debugMode set, the ref holds a started synthetic source, and no
\* press of 'Fake löyly' is without effect.
C29_DebugModeHasSource ==
    /\ app.debugMode =>
          /\ app.sensorRef # 0
          /\ app.inst[app.sensorRef].type = "debug"
          /\ app.inst[app.sensorRef].held
    /\ app.did # "nothing"

-----------------------------------------------------------------------------
(* Properties of the in-memory history, under SpecHistory *)

\* C30: after every update the new entry is the last of the history, every
\* entry kept is no older than WINDOW_MS as of that update, the entries are
\* in non-decreasing order of ts, and exactly the older ones are gone.
C30_HistoryIsWindow ==
    history.at # Null =>
        /\ history.entries # <<>>
        /\ history.entries[Len(history.entries)] = history.all[Len(history.all)]
        /\ history.entries[Len(history.entries)].ts = history.at.v
        /\ \A k \in 1..Len(history.entries) :
              history.at.v - history.entries[k].ts <= WINDOW_MS
        /\ \A k \in 1..(Len(history.entries) - 1) :
              history.entries[k].ts <= history.entries[k + 1].ts
        /\ history.entries =
              SelectSeq(history.all, LAMBDA d : history.at.v - d.ts <= WINDOW_MS)

\* An update that dropped an entry and kept one exactly WINDOW_MS old.
C30_Witness ==
    /\ history.at # Null
    /\ Len(history.entries) < Len(history.all)
    /\ \E k \in 1..Len(history.entries) :
          history.at.v - history.entries[k].ts = WINDOW_MS

====
